---- MODULE Spec2Model ----
(***************************************************************************)
(* Model of the TSP layer of tspgen's branch-and-bound solver              *)
(* (src/src/resolution): the transition model TspModel, the relaxation     *)
(* TspRelax, the ranking TspRanking and the compression TspCompression.    *)
(*                                                                         *)
(* The search engine (the ddo crate) is the environment: it compiles a     *)
(* decision diagram layer by layer, calling next_variable,                 *)
(* for_each_in_domain, transition and transition_cost on every node of a   *)
(* layer, and merge on nodes of one layer when the layer is too wide.      *)
(*                                                                         *)
(* Sets of destinations (smallbitset::Set64) are sets of numbers in        *)
(* 0..Capacity-1.  Distances (f32) are integers counting 1/SubUnits of a   *)
(* fixed-point unit, so that `cost * 100_000.0` is d / SubUnits and the    *)
(* rounding of model.rs:57 has something to round.                         *)
(***************************************************************************)
EXTENDS Integers, Sequences, FiniteSets, TLC

VARIABLES
    distances,    \* Instance.distances of the problem (immutable)
    membership,   \* TspCompression.membership: destination -> cluster
    nMeta,        \* number of destinations of TspCompression.meta_problem
    layer,        \* the nodes (TspState) of the layer the engine is compiling
    path,         \* decisions taken so far on an exact walk
    last          \* the last call made into the code and what it returned

vars == <<distances, membership, nMeta, layer, path, last>>

-----------------------------------------------------------------------------
(* Bounds *)

N == 4            \* number of destinations of the instance
MaxWidth == 2     \* width of the decision diagram (Solve.width)
MaxMeta == 3      \* largest number of meta destinations tried
SubUnits == 10    \* distance units per fixed-point unit
MaxMerge == 2     \* longest collection handed to merge on arbitrary states
MaxWorkers == 2     \* number of concurrent search workers

(* Program constants *)

Capacity == 64           \* Set64 holds 0..63
F32_MAX == 100000000     \* stands for f32::MAX: above every distance of an instance

Dest == 0..(N - 1)
Full == 0..(Capacity - 1)

-----------------------------------------------------------------------------
(* Helpers *)

SetMin(S) == CHOOSE x \in S : \A y \in S : x <= y
SetMax(S) == CHOOSE x \in S : \A y \in S : x >= y
Max2(a, b) == IF a >= b THEN a ELSE b

\* f32::round: to the nearest integer, halves away from zero, of d / SubUnits
RoundMutTrunc(d) == IF d >= 0 THEN d \div SubUnits ELSE -((-d) \div SubUnits)
Round(d) ==
    IF d >= 0 THEN (2 * d + SubUnits) \div (2 * SubUnits)
    ELSE -((2 * (-d) + SubUnits) \div (2 * SubUnits))

-----------------------------------------------------------------------------
(* TspModel (model.rs).  A model is its instance: inst.n destinations and  *)
(* inst.distances.                                                         *)

Instance(n, d) == [n |-> n, distances |-> d]

nb_variables(inst) == inst.n

initial_stateMutNoDepot(inst) ==
    [depth |-> 0, current |-> {0},
     must_visit |-> {i \in 1..(nb_variables(inst) - 1) : TRUE},
     might_visit |-> {}]
initial_state(inst) ==
    [depth |-> 0, current |-> {0},
     must_visit |-> {i \in 0..(nb_variables(inst) - 1) : TRUE},
     might_visit |-> {}]

initial_value == 0

transitionMutKeepMight(state, decision) ==
    [depth |-> state.depth + 1, current |-> {decision},
     must_visit |-> state.must_visit \ {decision},
     might_visit |-> state.might_visit]
transition(state, decision) ==
    [depth |-> state.depth + 1,
     current |-> {decision},
     must_visit |-> state.must_visit \ {decision},
     might_visit |-> state.might_visit \ {decision}]

transition_cost(inst, state, to) ==
    IF state.current = {} THEN 0
    ELSE -SetMin({Round(inst.distances[from][to]) : from \in state.current})

\* Option<Variable> as a sequence: <<>> is None
next_variable(inst, depth) ==
    IF depth < nb_variables(inst) THEN <<depth>> ELSE <<>>

\* the set of decision values handed to the callback
for_each_in_domainMutDepotAnytime(state) ==
    state.must_visit \cup state.might_visit
for_each_in_domainMutNoClosing(state) ==
    (state.must_visit \cup state.might_visit) \ {0}
for_each_in_domain(state) ==
    LET dest == state.must_visit \cup state.might_visit
    IN IF Cardinality(dest) = 1 THEN {0} ELSE dest \ {0}

-----------------------------------------------------------------------------
(* TspRelax (model.rs) *)

RECURSIVE MergeLoop(_, _, _)
MergeLoop(states, i, acc) ==
    IF i > Len(states) THEN acc
    ELSE LET state == states[i]
         IN MergeLoop(states, i + 1,
                [depth |-> Max2(acc.depth, state.depth),
                 curr  |-> acc.curr \cup state.current,
                 must  |-> acc.must \cap state.must_visit,
                 might |-> (acc.might \cup state.must_visit) \cup state.might_visit])

mergeMutLastDepth(states) ==
    LET r == MergeLoop(states, 1, [depth |-> 0, curr |-> {}, must |-> Full, might |-> {}])
    IN [depth |-> states[Len(states)].depth, current |-> r.curr,
        must_visit |-> r.must, might_visit |-> r.might \ r.must]
mergeMutNoMight(states) ==
    LET r == MergeLoop(states, 1, [depth |-> 0, curr |-> {}, must |-> Full, might |-> {}])
    IN [depth |-> r.depth, current |-> r.curr, must_visit |-> r.must,
        might_visit |-> {}]
mergeMutSwapped(states) ==
    LET r == MergeLoop(states, 1, [depth |-> 0, curr |-> {}, must |-> Full, might |-> {}])
    IN [depth |-> r.depth, current |-> r.curr, must_visit |-> r.might \ r.must,
        might_visit |-> r.must]
mergeMutEmptyMust(states) ==
    LET r == MergeLoop(states, 1, [depth |-> 0, curr |-> {}, must |-> {}, might |-> {}])
    IN [depth |-> r.depth, current |-> r.curr, must_visit |-> r.must,
        might_visit |-> r.might \ r.must]
mergeMutNoDiff(states) ==
    LET r == MergeLoop(states, 1, [depth |-> 0, curr |-> {}, must |-> Full, might |-> {}])
    IN [depth |-> r.depth, current |-> r.curr, must_visit |-> r.must,
        might_visit |-> r.might]
merge(states) ==
    LET r == MergeLoop(states, 1, [depth |-> 0, curr |-> {}, must |-> Full, might |-> {}])
    IN [depth |-> r.depth,
        current |-> r.curr,
        must_visit |-> r.must,
        might_visit |-> r.might \ r.must]

relax(cost) == cost

-----------------------------------------------------------------------------
(* TspCompression (compression.rs) *)

\* Set64::insert(self, x) -> Self returns the enlarged set and leaves the
\* receiver as it was: model.rs:29 has to assign the result back, and
\* model.rs:48 calls its counterpart `remove` through a shared reference.
insert(set, x) == set \cup {x}

\* for i in items.iter() { set.insert(*member.get(&i).unwrap() as u8); }
\* in place, as a set that is updated by the call
RECURSIVE InsertAllMutInPlace(_, _, _)
InsertAllMutInPlace(set, items, member) ==
    IF items = {} THEN set
    ELSE LET i == SetMin(items)
         IN InsertAllMutInPlace(insert(set, member[i]), items \ {i}, member)

\* the same loop as compression.rs:91-93 and 96-98 write it: the statement
\* drops what insert returns, and `set` is never assigned
RECURSIVE InsertAll(_, _, _)
InsertAll(set, items, member) ==
    IF items = {} THEN set
    ELSE LET i == SetMin(items)
             dropped == insert(set, member[i])
         IN InsertAll(set, items \ {i}, member)

compute_meta_distancesMutTransposed(inst, member, k) ==
    [a \in 0..(k - 1) |-> [b \in 0..(k - 1) |->
        SetMin({F32_MAX} \cup
               {inst.distances[j][i] :
                   i \in {i \in 0..(inst.n - 1) : member[i] = a},
                   j \in {j \in 0..(inst.n - 1) : member[j] = b}})]]
compute_meta_distances(inst, member, k) ==
    [a \in 0..(k - 1) |-> [b \in 0..(k - 1) |->
        SetMin({F32_MAX} \cup
               {inst.distances[i][j] :
                   i \in {i \in 0..(inst.n - 1) : member[i] = a},
                   j \in {j \in 0..(inst.n - 1) : member[j] = b}})]]

\* TspCompression::new: the meta problem built from kmeans' membership
meta_problem(inst, member, k) ==
    Instance(k, compute_meta_distances(inst, member, k))

compress(member, k, state) ==
    LET current    == InsertAll({}, state.current, member)
        must_visit == InsertAll({}, state.must_visit, member)
        might_visit == {}
        depth      == k - Cardinality(must_visit)
    IN [depth |-> depth, current |-> current,
        must_visit |-> must_visit, might_visit |-> might_visit]

decompress(solution) == solution

-----------------------------------------------------------------------------
(* Instances the engine is run on.  1.0 is 100000 fixed-point units.       *)

\* destinations on a ring: neighbours at 1.0, the others at sqrt(2)
\* (the unit square when there are 4)
RingInstance ==
    [i \in Dest |-> [j \in Dest |->
        IF i = j THEN 0
        ELSE IF (j - i) % N \in {1, N - 1} THEN 100000 * SubUnits
        ELSE 141421 * SubUnits + 4]]

\* an asymmetric instance whose costs fall between fixed-point units
AsymInstance ==
    [i \in Dest |-> [j \in Dest |->
        IF i = j THEN 0 ELSE 5 + 7 * i + 3 * j + 10 * ((i * j) % 4)]]

\* a cheap directed cycle 0 -> 1 -> ... -> 0 among expensive edges
CycleInstance ==
    [i \in Dest |-> [j \in Dest |->
        IF i = j THEN 0
        ELSE IF j = (i + 1) % N THEN 15 ELSE 985 + i + 3 * j]]

Instances == {RingInstance, AsymInstance, CycleInstance}

\* kmeans is outside this repository: any total membership may come back
Memberships(k) == [Dest -> 0..(k - 1)]

\* the clustering that deals the destinations round to the k clusters
RoundRobin(k) == [d \in Dest |-> d % k]

problem == Instance(N, distances)

-----------------------------------------------------------------------------
(* The engine compiling a relaxed decision diagram *)

\* the nodes of S in the order the engine's iterator hands them to merge
RECURSIVE SeqOf(_)
SeqOf(S) ==
    IF S = {} THEN <<>>
    ELSE LET x == CHOOSE x \in S : TRUE
         IN <<x>> \o SeqOf(S \ {x})

LayerDepth == (CHOOSE s \in layer : TRUE).depth

Init ==
    /\ distances \in Instances
    /\ nMeta \in 1..MaxMeta
    /\ membership = RoundRobin(nMeta)
    /\ layer = {initial_state(problem)}
    /\ path = <<>>
    /\ last = [op |-> "initial_state", result |-> initial_state(problem),
               value |-> initial_value]

\* one layer is developed into the next: every node, every decision of its domain
Expand ==
    /\ layer # {}
    /\ Cardinality(layer) <= MaxWidth
    /\ next_variable(problem, LayerDepth) # <<>>
    /\ layer' = UNION {{transition(s, d) : d \in for_each_in_domain(s)} : s \in layer}
    /\ last' = [op |-> "transition"]
    /\ UNCHANGED <<distances, membership, nMeta, path>>

\* a layer wider than the width is narrowed: the surplus nodes are merged into one
Relax(S) ==
    /\ Cardinality(layer) > MaxWidth
    /\ Cardinality(S) = Cardinality(layer) - MaxWidth + 1
    /\ layer' = (layer \ S) \cup {merge(SeqOf(S))}
    /\ last' = [op |-> "merge"]
    /\ UNCHANGED <<distances, membership, nMeta, path>>

\* the compression bound asks for the meta state of a node of a layer that
\* fits the width
Compress(s) ==
    /\ Cardinality(layer) <= MaxWidth
    /\ last' = [op |-> "compress", state |-> s, result |-> compress(membership, nMeta, s)]
    /\ UNCHANGED <<distances, membership, nMeta, layer, path>>

Next ==
    \/ Expand
    \/ \E S \in SUBSET layer : Relax(S)
    \/ \E s \in layer : Compress(s)

Spec == Init /\ [][Next]_vars

-----------------------------------------------------------------------------
(* The engine following one exact path: no node is ever merged *)

Node == CHOOSE s \in layer : TRUE

Step(d) ==
    /\ next_variable(problem, Node.depth) # <<>>
    /\ d \in for_each_in_domain(Node)
    /\ layer' = {transition(Node, d)}
    /\ path' = Append(path, d)
    /\ last' = [op |-> "transition", state |-> Node, decision |-> d,
                result |-> transition(Node, d),
                cost |-> transition_cost(problem, Node, d)]
    /\ UNCHANGED <<distances, membership, nMeta>>

InitExact ==
    /\ distances \in Instances
    /\ nMeta \in 1..MaxMeta
    /\ membership \in Memberships(nMeta)
    /\ layer = {initial_state(problem)}
    /\ path = <<>>
    /\ last = [op |-> "initial_state", result |-> initial_state(problem),
               value |-> initial_value]

NextExact ==
    \/ \E d \in Dest : Step(d)
    \/ Compress(Node)

SpecExact == InitExact /\ [][NextExact]_vars

-----------------------------------------------------------------------------
(* merge called on arbitrary collections of arbitrary states *)

Elems == {0, 1}
Depths == {0, 1}

\* states that are somewhere: current is not empty
AnyState ==
    [depth : Depths, current : (SUBSET Elems) \ {{}},
     must_visit : SUBSET Elems, might_visit : SUBSET Elems]

MergeInputs == UNION {[1..n -> AnyState] : n \in 1..MaxMerge}

InitMerge ==
    /\ distances = RingInstance
    /\ nMeta = 1
    /\ membership = [d \in Dest |-> 0]
    /\ layer = {}
    /\ path = <<>>
    /\ last \in {[op |-> "merge_input", states |-> q] : q \in MergeInputs}

CallMerge ==
    /\ last.op = "merge_input"
    /\ last' = [op |-> "merge", states |-> last.states, result |-> merge(last.states)]
    /\ UNCHANGED <<distances, membership, nMeta, layer, path>>

SpecMerge == InitMerge /\ [][CallMerge]_vars

-----------------------------------------------------------------------------
(* transition_cost called on arbitrary states of arbitrary small instances *)

DistValues == {-26, -15, -4, 0, 5, 14, 15, 26}

InitCost ==
    /\ distances \in [Elems -> [Elems -> DistValues]]
    /\ nMeta = 1
    /\ membership = [d \in Elems |-> 0]
    /\ layer = {}
    /\ path = <<>>
    /\ last \in {[op |-> "cost_input", state |-> s, to |-> t] :
                    s \in {s \in AnyState : s.depth = 0 /\ s.might_visit = {}},
                    t \in Elems}

CallTransitionCost ==
    /\ last.op = "cost_input"
    /\ last' = [op |-> "transition_cost", state |-> last.state, to |-> last.to,
                result |-> transition_cost(Instance(Cardinality(Elems), distances),
                                           last.state, last.to)]
    /\ UNCHANGED <<distances, membership, nMeta, layer, path>>

SpecCost == InitCost /\ [][CallTransitionCost]_vars

-----------------------------------------------------------------------------
(* What a state can still be completed to *)

\* the decision sequences legal from `state`: each decision is offered by
\* for_each_in_domain at the state reached so far, until next_variable is None
RECURSIVE Completions(_, _)
Completions(inst, state) ==
    IF next_variable(inst, state.depth) = <<>> THEN {<<>>}
    ELSE UNION {{<<d>> \o c : c \in Completions(inst, transition(state, d))} :
                    d \in for_each_in_domain(state)}

\* the values of the completions of `state`: the sum of the costs of their
\* decisions, each passed through relax
RECURSIVE CompletionValues(_, _)
CompletionValues(inst, state) ==
    IF next_variable(inst, state.depth) = <<>> THEN {0}
    ELSE UNION {{relax(transition_cost(inst, state, d)) + v :
                     v \in CompletionValues(inst, transition(state, d))} :
                    d \in for_each_in_domain(state)}

Collections == (SUBSET layer) \ {{}}

-----------------------------------------------------------------------------
(* Claims *)

\* C1: relaxation soundness of merge.  For every non-empty collection S of
\* nodes of a layer and every s in S, every decision sequence legal from s
\* is legal from merge(S).  (Violated: the might_visit left by merge keeps
\* the depot out of the domain of the merged state.)
C1_MergeKeepsCompletions ==
    \A S \in Collections : \A s \in S :
        Completions(problem, s) \subseteq Completions(problem, merge(SeqOf(S)))

\* C2: the merged state dominates its inputs in value.  The distances of
\* every instance are non-negative; for every non-empty collection S of
\* nodes of a layer and every s in S that has a completion, merge(S) has a
\* completion and its best value is at least the best value of s.
C2_MergeDominatesValue ==
    \A S \in Collections : \A s \in S :
        LET own    == CompletionValues(problem, s)
            merged == CompletionValues(problem, merge(SeqOf(S)))
        IN own # {} => (merged # {} /\ SetMax(merged) >= SetMax(own))

Best(inst, state) == SetMax(CompletionValues(inst, state))

meta == meta_problem(problem, membership, nMeta)

\* every cluster has a destination
EveryClusterUsed == \A a \in 0..(nMeta - 1) : \E d \in Dest : membership[d] = a

\* C3: admissibility of the compressed bound.  On an exact path (SpecExact),
\* with non-negative distances: the best value of the meta model from
\* compress(s) is at least the best value of the original model from s, and
\* the optimal tour of the meta instance costs no more than the optimal tour
\* of the original instance (best values are negated costs).  The second
\* part is stated for the memberships that use every cluster, where no
\* f32::MAX enters a tour of the meta instance.
C3_CompressedBoundAdmissible ==
    /\ \A s \in layer :
          Best(meta, compress(membership, nMeta, s)) >= Best(problem, s)
    /\ EveryClusterUsed =>
          Best(meta, initial_state(meta)) >= Best(problem, initial_state(problem))

Range(q) == {q[i] : i \in DOMAIN q}

Disjoint(state) == state.must_visit \cap state.might_visit = {}

Domain(state) == state.must_visit \cup state.might_visit

\* C4: merge equals its reference definition (SpecMerge): depth is the
\* maximum of the inputs' depths, current the union of their current sets,
\* must_visit the intersection of their must_visit sets, and might_visit the
\* union of their must_visit and might_visit sets minus that intersection.
C4_MergeIsReference ==
    last.op = "merge" =>
        LET S == Range(last.states)
            must == {x \in UNION {s.must_visit : s \in S} :
                        \A s \in S : x \in s.must_visit}
        IN /\ \A s \in S : last.result.depth >= s.depth
           /\ \E s \in S : last.result.depth = s.depth
           /\ last.result.current = UNION {s.current : s \in S}
           /\ last.result.must_visit = must
           /\ last.result.might_visit =
                  UNION {s.must_visit \cup s.might_visit : s \in S} \ must

\* a merge of two states of different depths whose result has both a
\* must_visit and a might_visit
C4_Witness ==
    /\ last.op = "merge"
    /\ Len(last.states) = 2
    /\ last.states[1].depth > last.states[2].depth
    /\ last.states[1].must_visit # last.states[2].must_visit
    /\ last.result.must_visit # {}
    /\ last.result.might_visit # {}

\* C5: must_visit and might_visit are disjoint in every node of every layer
\* the engine reaches by transitions and merges, and in every state that
\* compress returns.
C5_MustMightDisjoint ==
    /\ \A s \in layer : Disjoint(s)
    /\ \A S \in Collections : Disjoint(merge(SeqOf(S)))
    /\ last.op = "compress" => Disjoint(last.result)

\* compress has been called on a merged node that has both sets
C5_Witness ==
    /\ last.op = "compress"
    /\ last.state \in layer
    /\ last.state.must_visit # {}
    /\ last.state.might_visit # {}
    /\ Cardinality(last.state.current) > 1

\* C6: exact tours close at the depot (SpecExact).  The decisions taken are
\* as many as the depth, no destination is decided twice, the depot is
\* decided only as the N-th decision; and a path that cannot be extended
\* has depth N, where next_variable is None, has decided every destination
\* once, and its last decision is the depot.
C6_ExactToursCloseAtDepot ==
    LET s == Node
        maximal == \/ next_variable(problem, s.depth) = <<>>
                   \/ for_each_in_domain(s) = {}
    IN /\ Len(path) = s.depth
       /\ \A i, j \in DOMAIN path : i # j => path[i] # path[j]
       /\ \A i \in DOMAIN path : path[i] = 0 => i = N
       /\ maximal =>
             /\ Len(path) = N
             /\ next_variable(problem, s.depth) = <<>>
             /\ Range(path) = Dest
             /\ path[N] = 0

\* a complete tour
C6_Witness ==
    /\ Len(path) = N
    /\ path[N] = 0
    /\ next_variable(problem, Node.depth) = <<>>

\* C7: closing-tour constraint.  In every node of every layer reached by
\* transitions and merges, the depot is offered exactly when it is the only
\* element of must_visit \cup might_visit, and then nothing else is offered;
\* otherwise exactly the other elements of that set are offered.
C7_ClosingTourConstraint ==
    \A s \in layer :
        LET offered == for_each_in_domain(s)
        IN /\ 0 \in offered <=> Domain(s) = {0}
           /\ Domain(s) = {0} => offered = {0}
           /\ Domain(s) # {0} => offered = Domain(s) \ {0}

\* a layer with a node that is offered the depot only, beside a merged node
\* that is not offered it
C7_Witness ==
    /\ \E s \in layer : Domain(s) = {0} /\ for_each_in_domain(s) = {0}
    /\ \E s \in layer : 0 \in Domain(s) /\ for_each_in_domain(s) = Domain(s) \ {0}
                        /\ s.might_visit # {}

\* C8: transition cost formula (SpecCost).  For a state with a non-empty
\* current set, transition_cost is -r where r is an integer nearest to
\* c * 100000 and c is the least distance to t from the elements of current.
C8_TransitionCostFormula ==
    (last.op = "transition_cost" /\ last.state.current # {}) =>
        LET c == SetMin({distances[f][last.to] : f \in last.state.current})
            r == -last.result
        IN /\ 2 * (r * SubUnits - c) <= SubUnits
           /\ 2 * (c - r * SubUnits) <= SubUnits

\* a cost taken over two origins whose distances round differently
C8_Witness ==
    /\ last.op = "transition_cost"
    /\ Cardinality(last.state.current) = 2
    /\ \E f, g \in last.state.current :
          /\ distances[f][last.to] < distances[g][last.to]
          /\ Round(distances[f][last.to]) < Round(distances[g][last.to])
    /\ last.result * SubUnits # -SetMin({distances[f][last.to] : f \in last.state.current})

\* C9 as claimed: the initial state has depth 0, current = {depot},
\* must_visit = every destination but the depot, might_visit empty, and the
\* initial value is 0.
C9_InitialStateAsClaimed ==
    last.op = "initial_state" =>
        /\ last.result = [depth |-> 0, current |-> {0},
                          must_visit |-> Dest \ {0}, might_visit |-> {}]
        /\ last.value = 0

\* C9 amended: as claimed, but must_visit is the set of all destinations,
\* the depot included.
C9_InitialState ==
    last.op = "initial_state" =>
        /\ last.result.depth = 0
        /\ last.result.current = {0}
        /\ \A d \in Dest : d \in last.result.must_visit
        /\ last.result.must_visit \subseteq Dest
        /\ last.result.might_visit = {}
        /\ last.value = 0

C9_Witness ==
    /\ last.op = "initial_state"
    /\ layer = {last.result}

\* C10: transition effect.  For every node s of every layer and every
\* decision d offered at s, transition(s, d) has current = {d}, must_visit
\* and might_visit those of s without d, depth one more than s, and a
\* domain must_visit \cup might_visit of exactly one element fewer.
C10_TransitionEffect ==
    \A s \in layer : \A d \in for_each_in_domain(s) :
        LET r == transition(s, d)
        IN /\ r.current = {d}
           /\ r.must_visit = {x \in s.must_visit : x # d}
           /\ r.might_visit = {x \in s.might_visit : x # d}
           /\ r.depth = s.depth + 1
           /\ Cardinality(Domain(r)) = Cardinality(Domain(s)) - 1

\* the layer holds the result of a transition out of a merged node on a
\* decision of its might_visit
C10_Witness ==
    /\ last.op = "transition"
    /\ \E s \in layer : s.depth >= 2 /\ s.might_visit # {} /\ Cardinality(s.current) = 1
                        /\ for_each_in_domain(s) \cap s.might_visit # {}


Cluster(a) == {d \in Dest : membership[d] = a}

\* C11: meta-distance definition and per-edge admissibility (SpecExact,
\* every membership).  For all clusters a, b that both have a destination,
\* meta_distances[a][b] is a distance from some i of a to some j of b, and
\* is at most the distance from every i of a to every j of b.
C11_MetaDistanceIsMinimum ==
    LET meta_distances == meta.distances
    IN \A a, b \in 0..(nMeta - 1) :
        (Cluster(a) # {} /\ Cluster(b) # {}) =>
            /\ \E i \in Cluster(a), j \in Cluster(b) :
                  meta_distances[a][b] = distances[i][j]
            /\ \A i \in Cluster(a), j \in Cluster(b) :
                  meta_distances[a][b] <= distances[i][j]

\* a meta instance with an empty cluster beside two distinct clusters a, b
\* of which a has several destinations, whose meta distance is below the
\* distance of one of their edges and differs from the one of b to a
C11_Witness ==
    /\ \E c \in 0..(nMeta - 1) : Cluster(c) = {}
    /\ \E a, b \in 0..(nMeta - 1) :
          /\ a # b
          /\ Cardinality(Cluster(a)) > 1
          /\ Cluster(b) # {}
          /\ \E i \in Cluster(a), j \in Cluster(b) :
                meta.distances[a][b] < distances[i][j]
          /\ meta.distances[a][b] # meta.distances[b][a]

\* C12: compress equals its reference definition (SpecExact): the current
\* and must_visit of the result are the images under membership of those of
\* the state, might_visit is empty, and depth is the number of meta
\* destinations minus the size of the compressed must_visit.  (Violated:
\* the result of Set64::insert is dropped at compression.rs:92 and 97.)
C12_CompressIsReference ==
    last.op = "compress" =>
        LET must == {membership[d] : d \in last.state.must_visit}
        IN /\ last.result.current = {membership[d] : d \in last.state.current}
           /\ last.result.must_visit = must
           /\ last.result.might_visit = {}
           /\ last.result.depth = nMeta - Cardinality(must)


-----------------------------------------------------------------------------
(* Solve::execute on the unit square (SpecSolve) *)

Divisor == 100000000    \* mod.rs:152, the divisor of the reported value

\* the unit square: destinations 0..3 at its corners in order, sides 1.0
\* and diagonals sqrt(2) (1.4142136 as an f32), depot 0
UnitSquare ==
    [i \in 0..3 |-> [j \in 0..3 |->
        IF i = j THEN 0
        ELSE IF (j - i) % 4 \in {1, 3} THEN 100000 * SubUnits
        ELSE (14142136 * SubUnits) \div 100]]

square == Instance(4, UnitSquare)

\* the value of the decision sequence c taken from `state`
RECURSIVE PathValue(_, _, _)
PathValue(inst, state, c) ==
    IF c = <<>> THEN 0
    ELSE transition_cost(inst, state, Head(c))
            + PathValue(inst, transition(state, Head(c)), Tail(c))

\* mod.rs:152 with the scale of transition_cost as the divisor
reportedMutScale(best) ==
    IF best = <<>> THEN [num |-> 0, den |-> 1]
    ELSE [num |-> -best[1], den |-> 100000]

\* mod.rs:152: best_value.map(|v| v as f32 / -100_000_000.0).unwrap_or(0.0)
\* as the fraction num / den; `best` is <<v>> for Some(v) and <<>> for None
reported(best) ==
    IF best = <<>> THEN [num |-> 0, den |-> 1]
    ELSE [num |-> -best[1], den |-> Divisor]

\* execute up to the construction of the solver: the instance is the unit
\* square, the compressor is built whatever the flags are, with some
\* clustering of the destinations into nMeta meta destinations
InitSolve ==
    /\ distances = UnitSquare
    /\ nMeta \in 1..MaxMeta
    /\ membership \in [0..3 -> 0..(nMeta - 1)]
    /\ layer = {initial_state(square)}
    /\ path = <<>>
    /\ last = [op |-> "initial_state", result |-> initial_state(square),
               value |-> initial_value]

\* solver.maximize() run to completion without compression bound or
\* heuristic: the best value over the complete decision sequences of the
\* model from the initial state, with one sequence that attains it
Maximize ==
    /\ last.op = "initial_state"
    /\ LET root == initial_state(square)
           all  == Completions(square, root)
       IN IF all = {}
          THEN /\ last' = [op |-> "maximize", best_value |-> <<>>,
                           is_exact |-> TRUE]
               /\ path' = <<>>
          ELSE \E c \in all :
               /\ \A o \in all :
                     PathValue(square, root, o) <= PathValue(square, root, c)
               /\ last' = [op |-> "maximize",
                           best_value |->
                               <<initial_value + PathValue(square, root, c)>>,
                           is_exact |-> TRUE]
               /\ path' = c
    /\ UNCHANGED <<distances, membership, nMeta, layer>>

\* the conversion and the printed results
Report ==
    /\ last.op = "maximize"
    /\ last' = [op |-> "report", is_exact |-> last.is_exact,
                best_value |-> reported(last.best_value), solution |-> path]
    /\ UNCHANGED <<distances, membership, nMeta, layer, path>>

NextSolve == Maximize \/ Report

SpecSolve == InitSolve /\ [][NextSolve]_vars

\* C13 as stated: the run on the unit square reports a best value of 4 and
\* is_exact = true.  (Violated: the reported value is the fixed-point value
\* divided by -100000000, which is 0.004.)
C13_ReportsFour ==
    last.op = "report" =>
        /\ last.is_exact
        /\ last.best_value.num = 4 * last.best_value.den

\* C13, amended: the best fixed-point value over the complete tours is
\* -400000, the run reports it divided by -100000000, that is 0.004 (the
\* perimeter 4 divided by 1000), with is_exact = true and a solution that
\* walks the perimeter.
C13_ReportsFourThousandths ==
    /\ last.op = "maximize" => last.best_value = <<-400000>>
    /\ last.op = "report" =>
        /\ last.is_exact
        /\ last.best_value.num * 1000 = 4 * last.best_value.den
        /\ last.solution \in {<<1, 2, 3, 0>>, <<3, 2, 1, 0>>}

C13_Witness ==
    /\ last.op = "report"
    /\ last.solution = <<3, 2, 1, 0>>
    /\ last.best_value.num = 400000


-----------------------------------------------------------------------------
(* TspRanking::compare called on arbitrary states (SpecCompare) *)

\* usize::cmp
cmp(x, y) == IF x < y THEN "Less" ELSE IF x > y THEN "Greater" ELSE "Equal"

\* Ordering::then_with
then_with(o, p) == IF o = "Equal" THEN p ELSE o

\* Ordering::reverse
reverse(o) == IF o = "Less" THEN "Greater" ELSE IF o = "Greater" THEN "Less" ELSE "Equal"

compareMutNoMight(a, b) ==
    reverse(then_with(cmp(Cardinality(a.must_visit), Cardinality(b.must_visit)),
                      cmp(Cardinality(a.current), Cardinality(b.current))))

compare(a, b) ==
    reverse(then_with(then_with(
        cmp(Cardinality(a.must_visit), Cardinality(b.must_visit)),
        cmp(Cardinality(a.might_visit), Cardinality(b.might_visit))),
        cmp(Cardinality(a.current), Cardinality(b.current))))

\* states to rank, current possibly empty as compress leaves it
RankStates ==
    [depth : {0}, current : SUBSET Elems,
     must_visit : SUBSET Elems, might_visit : SUBSET Elems]

InitCompare ==
    /\ distances = RingInstance
    /\ nMeta = 1
    /\ membership = [d \in Dest |-> 0]
    /\ layer = {}
    /\ path = <<>>
    /\ last \in [op : {"compare_input"}, a : RankStates, b : RankStates,
                 c : RankStates]

CallCompare ==
    /\ last.op = "compare_input"
    /\ last' = [op |-> "compare", a |-> last.a, b |-> last.b, c |-> last.c,
                ab |-> compare(last.a, last.b), ba |-> compare(last.b, last.a),
                bc |-> compare(last.b, last.c), ac |-> compare(last.a, last.c)]
    /\ UNCHANGED <<distances, membership, nMeta, layer, path>>

SpecCompare == InitCompare /\ [][CallCompare]_vars

\* (|must_visit|, |might_visit|, |current|) of a is lexicographically
\* below that of b
LexBelow(a, b) ==
    LET am == Cardinality(a.must_visit)   bm == Cardinality(b.must_visit)
        ag == Cardinality(a.might_visit)  bg == Cardinality(b.might_visit)
        ac == Cardinality(a.current)      bc == Cardinality(b.current)
    IN \/ am < bm
       \/ am = bm /\ ag < bg
       \/ am = bm /\ ag = bg /\ ac < bc

SameCardinalities(a, b) ==
    /\ Cardinality(a.must_visit) = Cardinality(b.must_visit)
    /\ Cardinality(a.might_visit) = Cardinality(b.might_visit)
    /\ Cardinality(a.current) = Cardinality(b.current)

\* C14: state ranking.  compare(a, b) is Greater exactly when the triple
\* (|must_visit|, |might_visit|, |current|) of a is lexicographically
\* below that of b, Less exactly when it is above, and Equal exactly when
\* the three cardinalities coincide; compare(b, a) is the opposite of
\* compare(a, b); and compare is transitive.
C14_CompareIsReverseLexicographic ==
    last.op = "compare" =>
        /\ (last.ab = "Greater") <=> LexBelow(last.a, last.b)
        /\ (last.ab = "Less") <=> LexBelow(last.b, last.a)
        /\ (last.ab = "Equal") <=> SameCardinalities(last.a, last.b)
        /\ \/ last.ab = "Greater" /\ last.ba = "Less"
           \/ last.ab = "Less" /\ last.ba = "Greater"
           \/ last.ab = "Equal" /\ last.ba = "Equal"
        /\ (last.ab # "Less" /\ last.bc # "Less") => last.ac # "Less"
        /\ (last.ab = "Greater" /\ last.bc # "Less") => last.ac = "Greater"
        /\ (last.ab # "Less" /\ last.bc = "Greater") => last.ac = "Greater"
        /\ (last.ab = "Equal" /\ last.bc = "Equal") => last.ac = "Equal"

\* a is preferred to b by the might_visit tie-break although its current
\* is larger, b is preferred to c by the current tie-break, and a to c
C14_Witness ==
    /\ last.op = "compare"
    /\ Cardinality(last.a.must_visit) = Cardinality(last.b.must_visit)
    /\ Cardinality(last.a.might_visit) < Cardinality(last.b.might_visit)
    /\ Cardinality(last.a.current) > Cardinality(last.b.current)
    /\ last.ab = "Greater"
    /\ SameCardinalities(last.b, [last.c EXCEPT !.current = last.b.current])
    /\ Cardinality(last.b.current) < Cardinality(last.c.current)
    /\ last.bc = "Greater"
    /\ last.ac = "Greater"


-----------------------------------------------------------------------------
(* TspModel::for_each_in_domain called on arbitrary states (SpecDomain) *)

InitDomain ==
    /\ distances = RingInstance
    /\ nMeta = 1
    /\ membership = [d \in Dest |-> 0]
    /\ layer = {}
    /\ path = <<>>
    /\ last \in [op : {"domain_input"}, state : AnyState]

CallDomain ==
    /\ last.op = "domain_input"
    /\ last' = [op |-> "for_each_in_domain", state |-> last.state,
                result |-> for_each_in_domain(last.state)]
    /\ UNCHANGED <<distances, membership, nMeta, layer, path>>

SpecDomain == InitDomain /\ [][CallDomain]_vars

\* C15: forced last choice regardless of identity.  For every state with
\* disjoint must_visit and might_visit whose candidate set
\* must_visit \cup might_visit has exactly one element x, the decisions
\* offered by for_each_in_domain are exactly {x}.  (Violated: the decision
\* offered for a single candidate is always 0, model.rs:75.)
C15_SingleCandidateIsOffered ==
    (/\ last.op = "for_each_in_domain"
     /\ Disjoint(last.state)
     /\ Cardinality(Domain(last.state)) = 1)
        => last.result = Domain(last.state)


-----------------------------------------------------------------------------
(* The compression-based bound at the initial state (SpecBound) *)

\* the bound of CompressedSolutionBound at the initial state: the best
\* value of the meta model of `member` from compress(initial_state)
CompressionBound(member, k) ==
    Best(meta_problem(problem, member, k),
         compress(member, k, initial_state(problem)))

InitBound ==
    /\ distances \in Instances
    /\ nMeta \in 1..MaxMeta
    /\ membership \in Memberships(nMeta)
    /\ layer = {initial_state(problem)}
    /\ path = <<>>
    /\ last = [op |-> "bound_input"]

\* the bound with the nMeta clusters of `membership`, the bound with a
\* larger number k2 of clusters, and the optimum of the instance
ComputeBound(k2) ==
    /\ last.op = "bound_input"
    /\ k2 > nMeta
    /\ last' = [op |-> "bound", k1 |-> nMeta,
                bound1 |-> CompressionBound(membership, nMeta),
                k2 |-> k2, bound2 |-> CompressionBound(RoundRobin(k2), k2),
                optimum |-> Best(problem, initial_state(problem))]
    /\ UNCHANGED <<distances, membership, nMeta, layer, path>>

NextBound == \E k2 \in 2..N : ComputeBound(k2)

SpecBound == InitBound /\ [][NextBound]_vars

-----------------------------------------------------------------------------
(* Concurrent calls by the search workers (SpecWorkers) *)

Workers == 1..MaxWorkers

Ops == {"transition", "transition_cost", "for_each_in_domain", "merge",
        "relax", "compare", "compress", "decompress"}

\* two nodes of the second layer
NodeAt(i) == transition(initial_state(problem), i)

\* how many choices of arguments a method is called with
Choices(op) == IF op \in {"merge", "compress"} THEN 1..2 ELSE {1}

\* the i-th choice of arguments of a call
Args(op, i) ==
    CASE op \in {"transition", "transition_cost"} ->
             [state |-> NodeAt(i), decision |-> 3 - i]
      [] op = "for_each_in_domain" ->
             [state |-> IF i = 1 THEN initial_state(problem)
                        ELSE transition(transition(NodeAt(1), 2), 3)]
      [] op = "merge" -> [states |-> <<NodeAt(i), NodeAt(3 - i)>>]
      [] op = "relax" -> [cost |-> -i]
      [] op = "compare" ->
             [a |-> NodeAt(i), b |-> transition(NodeAt(1), 1 + i)]
      [] op = "compress" -> [state |-> NodeAt(i)]
      [] op = "decompress" -> [solution |-> <<i, 3 - i>>]

\* what a call returns: every method takes &self and its arguments by
\* shared reference or by value, and reads the instance, the meta instance
\* and the membership table
Eval(op, args) ==
    CASE op = "transition" -> transition(args.state, args.decision)
      [] op = "transition_cost" ->
             transition_cost(problem, args.state, args.decision)
      [] op = "for_each_in_domain" -> for_each_in_domain(args.state)
      [] op = "merge" -> merge(args.states)
      [] op = "relax" -> relax(args.cost)
      [] op = "compare" -> compare(args.a, args.b)
      [] op = "compress" -> compress(membership, nMeta, args.state)
      [] op = "decompress" -> decompress(args.solution)

InitWorkers ==
    /\ distances = AsymInstance
    /\ nMeta \in 1..MaxMeta
    /\ membership = RoundRobin(nMeta)
    /\ layer = {}
    /\ path = <<>>
    /\ last = [w \in Workers |-> [phase |-> "idle"]]

\* worker w enters a method
Call(w, op, i) ==
    /\ last[w].phase # "called"
    /\ last' = [last EXCEPT ![w] =
                   [phase |-> "called", op |-> op, args |-> Args(op, i)]]
    /\ UNCHANGED <<distances, membership, nMeta, layer, path>>

\* a method that also relabels the depot's cluster in the shared table
ReturnMutRelabel(w) ==
    /\ last[w].phase = "called"
    /\ last' = [last EXCEPT ![w] =
                   [phase |-> "returned", op |-> last[w].op,
                    args |-> last[w].args,
                    result |-> Eval(last[w].op, last[w].args)]]
    /\ membership' = [membership EXCEPT ![0] = (@ + 1) % nMeta]
    /\ UNCHANGED <<distances, nMeta, layer, path>>

\* worker w leaves the method with its result
Return(w) ==
    /\ last[w].phase = "called"
    /\ last' = [last EXCEPT ![w] =
                   [phase |-> "returned", op |-> last[w].op,
                    args |-> last[w].args,
                    result |-> Eval(last[w].op, last[w].args)]]
    /\ UNCHANGED <<distances, membership, nMeta, layer, path>>

NextWorkers ==
    \/ \E w \in Workers, op \in Ops : \E i \in Choices(op) : Call(w, op, i)
    \/ \E w \in Workers : Return(w)

SpecWorkers == InitWorkers /\ [][NextWorkers]_vars

\* every returned result is the function of its arguments and of the
\* shared data
ResultsDetermined ==
    \A w \in Workers :
        last[w].phase = "returned" =>
            last[w].result = Eval(last[w].op, last[w].args)

\* C17: safe concurrent use.  In every step of every interleaving of the
\* workers' calls, the instance, the meta instance and the membership table
\* stay as they were constructed, and after the step the result every
\* worker holds is the value of its method on its arguments and that data,
\* whatever the other workers did in between.
C17_SafeConcurrentUse ==
    [][/\ distances' = distances
       /\ membership' = membership
       /\ nMeta' = nMeta
       /\ meta' = meta
       /\ ResultsDetermined']_vars

\* one worker has returned from compress while another is inside merge
C17_Witness ==
    \E w, v \in Workers :
        /\ w # v
        /\ last[w].phase = "returned"
        /\ last[w].op = "compress"
        /\ last[v].phase = "called"
        /\ last[v].op = "merge"


-----------------------------------------------------------------------------
(* Claims on the layers of Spec, merged nodes included *)

\* the states at depth d that transitions alone reach from initial_state
RECURSIVE ExactLayer(_)
ExactLayer(d) ==
    IF d = 0 THEN {initial_state(problem)}
    ELSE UNION {{transition(s, v) : v \in for_each_in_domain(s)} :
                    s \in ExactLayer(d - 1)}

\* C18: no dead ends and bounded completion, also for relaxed states.  Every
\* node s of every layer has depth <= N; when its depth is below N,
\* for_each_in_domain offers it a decision, depth + |must_visit \cup
\* might_visit| >= N, with equality when s is reached without a merge, and
\* every complete decision sequence from s has exactly N - depth decisions;
\* at depth N next_variable returns None.
C18_NoDeadEnd ==
    \A s \in layer :
        /\ s.depth <= N
        /\ s.depth = N => next_variable(problem, s.depth) = <<>>
        /\ s.depth < N =>
            /\ next_variable(problem, s.depth) # <<>>
            /\ for_each_in_domain(s) # {}
            /\ s.depth + Cardinality(Domain(s)) >= N
            /\ s \in ExactLayer(s.depth) =>
                  s.depth + Cardinality(Domain(s)) = N
            /\ Completions(problem, s) # {}
            /\ \A c \in Completions(problem, s) : Len(c) = N - s.depth

\* a layer below depth N with a merged node that has more candidates than
\* decisions left, beside a node no merge has touched
C18_Witness ==
    /\ last.op = "merge"
    /\ \E s \in layer :
          /\ s.depth < N
          /\ s \notin ExactLayer(s.depth)
          /\ s.depth + Cardinality(Domain(s)) > N
    /\ \E s \in layer :
          /\ s \in ExactLayer(s.depth)
          /\ s.depth + Cardinality(Domain(s)) = N

\* C19: the depot stays mandatory until the tour closes.  Every node of
\* every layer whose depth is below N has the depot 0 in must_visit and not
\* in might_visit, and when its candidate set has one element, that
\* element is 0.
C19_DepotStaysMandatory ==
    \A s \in layer :
        s.depth < N =>
            /\ 0 \in s.must_visit
            /\ 0 \notin s.might_visit
            /\ Cardinality(Domain(s)) = 1 => Domain(s) = {0}

\* the last layer before the tours close, just merged: a merged node that
\* still has optional destinations beside the depot
C19_Witness ==
    /\ last.op = "merge"
    /\ \E s \in layer :
          /\ s.depth = N - 1
          /\ Cardinality(s.current) > 1
          /\ s.might_visit # {}
          /\ 0 \in s.must_visit


-----------------------------------------------------------------------------
(* Claims on merge as a function of a collection (SpecMerge) *)

\* C20: merge is independent of order and grouping.  For input states with
\* must_visit and might_visit disjoint: every sequence of the same states,
\* in any order, is merged into the same state; the merge of a single
\* state is that state; and for every leading part A and trailing part B
\* of the inputs that together hold them all, overlapping or not, merging
\* merge(A) and merge(B) gives the merge of the inputs.
C20_MergeOrderAndGrouping ==
    (/\ last.op = "merge"
     /\ \A i \in DOMAIN last.states : Disjoint(last.states[i]))
        => LET S == Range(last.states)
               n == Len(last.states)
           IN /\ \A q \in [1..n -> S] : Range(q) = S => merge(q) = last.result
              /\ n = 1 => last.result = last.states[1]
              /\ \A i \in 1..n, j \in 1..n :
                    j <= i + 1 =>
                        LET A == SubSeq(last.states, 1, i)
                            B == SubSeq(last.states, j, n)
                        IN merge(<<merge(A), merge(B)>>) = last.result

\* two disjoint states that differ in depth, current and must_visit, merged
\* into a state that is neither of them
C20_Witness ==
    /\ last.op = "merge"
    /\ Len(last.states) = 2
    /\ \A i \in DOMAIN last.states : Disjoint(last.states[i])
    /\ last.states[1].depth < last.states[2].depth
    /\ last.states[1].current # last.states[2].current
    /\ last.states[1].must_visit # last.states[2].must_visit
    /\ last.states[1].might_visit # {}
    /\ last.result.might_visit # {}
    /\ last.result \notin Range(last.states)

====
